---- MODULE Spec2Model ----
(***************************************************************************)
(* Model of replace.py: the ImageDownloader class (working copy, retrying  *)
(* download, per-directory image cache keyed by the MD5 of the URL, link   *)
(* rewriting) and main().                                                  *)
(*                                                                         *)
(* A document is a sequence of image tokens `![alt](target)`; the text     *)
(* between the images plays no part in the program and is left out.  A     *)
(* target is a remote URL (it starts with http) or a local relative path.  *)
(* str.replace of one image markup by another is the replacement of every  *)
(* token equal to the first.                                               *)
(***************************************************************************)
EXTENDS Integers, Sequences, FiniteSets, TLC

(***************************************************************************)
(* Bounds of the model.                                                    *)
(***************************************************************************)
MaxDocs == 2          \* documents in the tree of a run of main
MaxTreeRefs == 1      \* image tokens in one document of that tree
MaxRefs == 2          \* image tokens in the document of the direct driver
MaxRetriesArg == 2    \* largest max_retries given to the constructor directly
MaxCalls == 2         \* process_markdown_file calls of the direct driver

DefaultMaxRetries == 3

(***************************************************************************)
(* Values.                                                                 *)
(***************************************************************************)
U1 == "http://h/p.JPG"
U2 == "http://h/q"
Urls == {U1, U2}
Dirs == {"top", "sub"}        \* the directories of the tree that hold documents
DirArgs == {".", "docs"}      \* sys.argv[1], "." being the default
Responses == {"y", "Y", "n", ""}
ContentTypes == {"", "text/html", "image/png", "image/PNG", "image/bmp"}

\* the arguments get_image_extension is called with directly: URLs whose path
\* has a suffix in either case, none, a query that ends in a suffix, a bare
\* dot, a dot in a directory name; content types in either case, with a
\* parameter, none ("" standing for None as well: both are false at line 64)
U3 == "http://h/r.png"
U4 == "http://h/s.webp?v=1.gif"
U5 == "http://h/t."
U6 == "http://h/u.v/w"
ExtUrls == {U1, U2, U3, U4, U5, U6}
ExtContentTypes ==
    ContentTypes \cup {"image/jpeg", "image/gif", "image/webp", "image/svg+xml",
                       "image/x-icon", "IMAGE/JPEG", "image/png; charset=binary"}

NoFile == [hash |-> "", ext |-> ""]

RemoteToken(a, u) == [alt |-> a, http |-> TRUE, url |-> u, file |-> NoFile]
\* `![alt](local_images/<hash>.<ext>)`: the path of line 157, relative to the
\* document's directory
LocalToken(a, f) == [alt |-> a, http |-> FALSE, url |-> "", file |-> f]

\* the images documents are built from: a pair, the same URL under another
\* alt text, another URL
RemoteTokens == {RemoteToken("a", U1), RemoteToken("b", U1), RemoteToken("a", U2)}

RECURSIVE SeqsUpTo(_, _)
SeqsUpTo(S, n) ==
    IF n = 0 THEN {<<>>}
    ELSE LET shorter == SeqsUpTo(S, n - 1)
         IN  shorter \cup {Append(s, x) : s \in {t \in shorter : Len(t) = n - 1}, x \in S}

Contents == SeqsUpTo(RemoteTokens, MaxRefs)
TreeContents == SeqsUpTo(RemoteTokens, MaxTreeRefs)

(***************************************************************************)
(* pathlib.Path: a sequence of components; Path(".") has none.  A          *)
(* component is a name with the suffix create_working_copy may append     *)
(* (documents are told apart by their number).                             *)
(***************************************************************************)
Comp(n) == [name |-> n, suffix |-> "", doc |-> 0]

PathOf(arg) == IF arg = "." THEN <<>> ELSE <<Comp(arg)>>

\* Path.parent: the parent of Path(".") is Path(".")
Parent(p) == IF Len(p) = 0 THEN p ELSE SubSeq(p, 1, Len(p) - 1)

\* Path.name: the name of Path(".") is the empty string
Name(p) == IF Len(p) = 0 THEN "" ELSE p[Len(p)].name

WorkingDirOf(base) ==
    Parent(base) \o <<[name |-> Name(base), suffix |-> "_processed_<timestamp>", doc |-> 0]>>

\* p is q or lies below q (both relative to the current directory)
IsUnder(p, q) == Len(q) <= Len(p) /\ SubSeq(p, 1, Len(q)) = q

DirPath(base, dir) == IF dir = "top" THEN base ELSE base \o <<Comp(dir)>>
DocPath(base, dir, d) == DirPath(base, dir) \o <<[name |-> "doc.md", suffix |-> "", doc |-> d]>>
ImageDir(base, dir) == DirPath(base, dir) \o <<Comp("local_images")>>
ImagePath(base, dir, f) == ImageDir(base, dir) \o <<[name |-> f.hash, suffix |-> f.ext, doc |-> 0]>>

(***************************************************************************)
(* Pure helpers of the class.                                              *)
(***************************************************************************)
\* hashlib.md5(url).hexdigest(): deterministic, one digest per URL
MD5(u) == CASE u = U1 -> "md5-1" [] u = U2 -> "md5-2" [] OTHER -> "md5-0"

Lower(s) ==
    CASE s = "image/PNG" -> "image/png"
      [] s = "IMAGE/JPEG" -> "image/jpeg"
      [] s = "Y" -> "y"
      [] OTHER -> s

ExtMap(ct) ==
    CASE ct = "image/jpeg" -> "jpg"
      [] ct = "image/png" -> "png"
      [] ct = "image/gif" -> "gif"
      [] ct = "image/webp" -> "webp"
      [] ct = "image/svg+xml" -> "svg"
      [] ct = "image/x-icon" -> "ico"
      [] OTHER -> ""

\* os.path.splitext(urlparse(url).path)[1]
UrlSuffix(u) ==
    CASE u = U1 -> ".JPG"
      [] u = U3 -> ".png"
      [] u = U4 -> ".webp"
      [] u = U5 -> "."
      [] OTHER -> ""

\* ext[1:].lower()
SuffixExt(s) ==
    CASE s = ".JPG" -> "jpg"
      [] s = ".png" -> "png"
      [] s = ".webp" -> "webp"
      [] OTHER -> ""

\* the suffix of the URL is tried before the content type
get_image_extension_url_first(url, content_type) ==
    IF UrlSuffix(url) # "" THEN SuffixExt(UrlSuffix(url))
    ELSE IF content_type # "" /\ ExtMap(Lower(content_type)) # ""
         THEN ExtMap(Lower(content_type))
         ELSE "jpg"

get_image_extension(url, content_type) ==
    IF content_type # "" /\ ExtMap(Lower(content_type)) # ""
    THEN ExtMap(Lower(content_type))
    ELSE IF UrlSuffix(url) # "" THEN SuffixExt(UrlSuffix(url)) ELSE "jpg"

\* the content types above that start with image/
ImageTypes == {"image/png", "image/PNG", "image/bmp"}

\* a missing header passes for an image
StartsWithImageOrMissing(ct) == ct = "" \/ ct \in ImageTypes

\* content_type.startswith('image/')
StartsWithImage(ct) == ct \in ImageTypes

File(u, e) == [hash |-> MD5(u), ext |-> e]

\* a pattern without the http requirement: every image is a match
FindAllAny(c) == [i \in 1..Len(c) |-> [alt |-> c[i].alt, url |-> c[i].url]]

\* re.findall(r'!\[(.*?)\]\((http[^)]+)\)', content): the (alt, url) pairs in order
RECURSIVE FindAll(_)
FindAll(c) ==
    IF c = <<>> THEN <<>>
    ELSE IF Head(c).http THEN <<[alt |-> Head(c).alt, url |-> Head(c).url]>> \o FindAll(Tail(c))
         ELSE FindAll(Tail(c))

\* content.replace(old, new, 1): the first occurrence only
ReplaceFirst(c, old, new) ==
    [i \in 1..Len(c) |->
        IF c[i] = old /\ (\A j \in 1..(i - 1) : c[j] # old) THEN new ELSE c[i]]

\* content.replace(old, new): every occurrence
Replace(c, old, new) == [i \in 1..Len(c) |-> IF c[i] = old THEN new ELSE c[i]]

\* a glob pattern that matches no file name
GlobNone(files, h) == {}

\* a glob pattern that matches the jpg files only
GlobJpgOnly(files, h) == {f \in files : f.hash = h /\ f.ext = "jpg"}

\* image_dir.glob(f"{image_hash}.*")
Glob(files, h) == {f \in files : f.hash = h}

\* the positions in c of the matches of FindAll, in order
RECURSIVE RemotePositions(_, _)
RemotePositions(c, from) ==
    IF from > Len(c) THEN <<>>
    ELSE IF c[from].http THEN <<from>> \o RemotePositions(c, from + 1)
         ELSE RemotePositions(c, from + 1)

(***************************************************************************)
(* State.                                                                  *)
(***************************************************************************)
VARIABLES
    pc,                \* where the program stands
    directory,         \* the command line argument
    exit_code,         \* -1 while the process runs
    ending,            \* history: how main came to return
    session,           \* Init, CopyCreated, Processing, Summarized
    base_dir,          \* self.base_dir
    original_dir,      \* self.original_dir (set by create_working_copy)
    max_retries,       \* self.max_retries
    processed_files,   \* self.processed_files
    processed_images,  \* self.processed_images
    failed_downloads,  \* self.failed_downloads
    disk,              \* the documents of the tree: number -> text on disk
    docdir,            \* the directory of each document
    images,            \* directory -> the files of its local_images
    remaining,         \* markdown_files not yet visited by the loop of line 187
    cur,               \* file_path of the current (or last) process_markdown_file
    content,           \* its local variable content
    image_links,       \* its local variable image_links
    idx,               \* position of its for loop in image_links
    attempt,           \* loop variable of download_image
    touched,           \* history: every path created or written
    calls,             \* history: process_markdown_file calls per document
    raised,            \* history: documents whose processing raised
    call,              \* history of the current (or last) process_markdown_file
    dl,                \* history of the current (or last) download_image
    failed_calls,      \* history: download_image calls that returned failure
    ncalls,            \* history: calls made by the direct driver
    images_start,      \* history: images as it was before the run
    downloaded,        \* history: (directory, url) pairs downloaded with success
    ext_call           \* a direct call of get_image_extension and its result

vars == <<pc, directory, exit_code, ending, session, base_dir, original_dir, max_retries,
          processed_files, processed_images, failed_downloads, disk, docdir, images,
          remaining, cur, content, image_links, idx, attempt, touched, calls, raised,
          call, dl, failed_calls, ncalls, images_start, downloaded, ext_call>>

\* read0, images0, files0, images_n0, failed0: the document, its local_images
\* and the three counters when the call began; mkdir: line 138 was passed;
\* writes: times write_text changed the document; nreq: requests sent
NoCall ==
    [result |-> "none", read0 |-> <<>>, images0 |-> {}, requested |-> {},
     ok_log |-> <<>>, failed_idx |-> {}, hit_idx |-> {},
     files0 |-> 0, images_n0 |-> 0, failed0 |-> 0, mkdir |-> FALSE, writes |-> 0,
     nreq |-> 0]
NoExt == [url |-> "", content_type |-> "", result |-> "none"]
NoDl ==
    [url |-> "", result |-> "none", failed |-> 0, nonimage |-> FALSE, created |-> {},
     path |-> NoFile]

\* files a local_images directory may hold before the run
PreFiles == {File(U1, "gif"), File(U1, "png")}

Trees ==
    UNION {[1..n -> TreeContents] : n \in 0..MaxDocs}

\* the tree main is run on
InitTree ==
    /\ disk \in Trees
    /\ docdir \in [DOMAIN disk -> Dirs]
    /\ \E pre \in SUBSET PreFiles : images = [dir \in Dirs |-> IF dir = "top" THEN pre ELSE {}]

\* the tree of the direct driver: one document
InitDocument ==
    /\ disk \in [{1} -> Contents]
    /\ docdir = [d \in {1} |-> "top"]
    /\ \E pre \in SUBSET PreFiles : images = [dir \in Dirs |-> IF dir = "top" THEN pre ELSE {}]

InitRest ==
    /\ exit_code = -1
    /\ ending = "running"
    /\ processed_files = 0
    /\ processed_images = 0
    /\ failed_downloads = 0
    /\ remaining = {}
    /\ cur = 0
    /\ content = <<>>
    /\ image_links = <<>>
    /\ idx = 0
    /\ attempt = 0
    /\ touched = {}
    /\ calls = [d \in DOMAIN disk |-> 0]
    /\ raised = {}
    /\ call = NoCall
    /\ dl = NoDl
    /\ failed_calls = 0
    /\ ncalls = 0
    /\ images_start = images
    /\ downloaded = {}

\* the process starts main(); __init__ (lines 30-36) runs when main constructs
\* the downloader
Init ==
    /\ pc = "main"
    /\ directory \in DirArgs
    /\ session = "Init"
    /\ base_dir = <<>>
    /\ original_dir = <<>>
    /\ max_retries = DefaultMaxRetries
    /\ InitTree
    /\ InitRest
    /\ ext_call = NoExt

\* the direct driver: a constructed ImageDownloader whose process_markdown_file
\* is called on documents of its tree, in any order, any document any number
\* of times
InitCalls ==
    /\ pc = "loop"
    /\ directory = "docs"
    /\ session = "Processing"
    /\ base_dir = PathOf(directory)
    /\ original_dir = <<>>
    /\ max_retries \in 0..MaxRetriesArg
    /\ InitDocument
    /\ InitRest
    /\ ext_call = NoExt

\* a constructed ImageDownloader whose get_image_extension is called once,
\* with any of the arguments above
InitExt ==
    /\ pc = "ext"
    /\ directory = "docs"
    /\ session = "Init"
    /\ base_dir = PathOf(directory)
    /\ original_dir = <<>>
    /\ max_retries = DefaultMaxRetries
    /\ disk = <<>>
    /\ docdir = <<>>
    /\ images = [dir \in Dirs |-> {}]
    /\ InitRest
    /\ ext_call \in [url : ExtUrls, content_type : ExtContentTypes, result : {"none"}]

(***************************************************************************)
(* main and process_directory.                                             *)
(***************************************************************************)
\* lines 230-238: anything but y (after lower()) cancels; y constructs the
\* downloader with the default max_retries
Confirm(response) ==
    /\ pc = "main"
    /\ IF Lower(response) # "y"
       THEN /\ pc' = "exited"
            /\ exit_code' = 0
            /\ ending' = "cancelled"
            /\ UNCHANGED <<base_dir, max_retries>>
       ELSE /\ pc' = "create_copy"
            /\ base_dir' = PathOf(directory)
            /\ max_retries' = DefaultMaxRetries
            /\ UNCHANGED <<exit_code, ending>>
    /\ UNCHANGED <<directory, session, original_dir, processed_files, processed_images,
                   failed_downloads, disk, docdir, images, remaining, cur, content,
                   image_links, idx, attempt, touched, calls, raised, call, dl,
                   failed_calls, ncalls, images_start, downloaded,
                   ext_call>>

\* what the process does once create_working_copy has raised: the exception is
\* re-raised (line 60), caught by process_directory (lines 192-193), which
\* returns to main, which returns
ExitCodeAfterCopyError == 0

\* lines 39-60 and 177-180: copytree either copies the tree to working_dir or
\* raises, having created the destination or not
CreateWorkingCopy(outcome, created) ==
    /\ pc = "create_copy"
    /\ LET working_dir == WorkingDirOf(base_dir)
       IN  IF outcome = "ok"
           THEN /\ created
                /\ touched' = touched \cup {working_dir}
                /\ original_dir' = base_dir
                /\ base_dir' = working_dir
                /\ session' = "CopyCreated"
                /\ pc' = "scan"
                /\ UNCHANGED <<exit_code, ending>>
           ELSE /\ touched' = IF created THEN touched \cup {working_dir} ELSE touched
                /\ pc' = "exited"
                /\ exit_code' = ExitCodeAfterCopyError
                /\ ending' = "copy_error"
                /\ UNCHANGED <<original_dir, base_dir, session>>
    /\ UNCHANGED <<directory, max_retries, processed_files, processed_images,
                   failed_downloads, disk, docdir, images, remaining, cur, content,
                   image_links, idx, attempt, calls, raised, call, dl, failed_calls,
                   ncalls, images_start, downloaded,
                   ext_call>>

\* lines 182-185: rglob("*.md"); without documents the run returns at once
Scan ==
    /\ pc = "scan"
    /\ IF DOMAIN disk = {}
       THEN /\ pc' = "exited"
            /\ exit_code' = 0
            /\ ending' = "no_documents"
            /\ UNCHANGED <<remaining, session>>
       ELSE /\ pc' = "loop"
            /\ remaining' = DOMAIN disk
            /\ session' = "Processing"
            /\ UNCHANGED <<exit_code, ending>>
    /\ UNCHANGED <<directory, base_dir, original_dir, max_retries, processed_files,
                   processed_images, failed_downloads, disk, docdir, images, cur,
                   content, image_links, idx, attempt, touched, calls, raised, call, dl,
                   failed_calls, ncalls, images_start, downloaded,
                   ext_call>>

(***************************************************************************)
(* process_markdown_file.                                                  *)
(***************************************************************************)
\* the exception leaves process_markdown_file and ends process_directory
AfterFileErrorPropagates == "exited"

\* where control goes when the body of process_markdown_file raises: the
\* except of line 168 logs and the call returns to its caller's loop
AfterFileError == "loop"

\* the body raised
FileRaise(d) ==
    /\ pc' = AfterFileError
    /\ exit_code' = IF AfterFileError = "exited" THEN 0 ELSE exit_code
    /\ ending' = IF AfterFileError = "exited" THEN "file_error" ELSE ending
    /\ raised' = raised \cup {d}
    /\ content' = <<>>
    /\ image_links' = <<>>
    /\ idx' = 0
    /\ attempt' = 0

\* lines 125-139: read, findall, the early return, mkdir
StartFile(d, outcome) ==
    /\ cur' = d
    /\ calls' = [calls EXCEPT ![d] = @ + 1]
    /\ dl' = NoDl
    /\ LET c0 == [NoCall EXCEPT !.read0 = disk[d], !.images0 = images[docdir[d]],
                                !.files0 = processed_files,
                                !.images_n0 = processed_images,
                                !.failed0 = failed_downloads]
           links == FindAll(disk[d])
       IN  CASE outcome = "read_error" ->
                  /\ FileRaise(d)
                  /\ call' = [c0 EXCEPT !.result = "raised"]
                  /\ UNCHANGED touched
             [] outcome = "mkdir_error" ->
                  /\ links # <<>>
                  /\ FileRaise(d)
                  /\ call' = [c0 EXCEPT !.result = "raised"]
                  /\ UNCHANGED touched
             [] outcome = "ok" /\ links = <<>> ->
                  /\ pc' = "loop"
                  /\ call' = [c0 EXCEPT !.result = "nolinks"]
                  /\ content' = <<>>
                  /\ image_links' = <<>>
                  /\ idx' = 0
                  /\ attempt' = 0
                  /\ UNCHANGED <<touched, raised, exit_code, ending>>
             [] outcome = "ok" /\ links # <<>> ->
                  /\ pc' = "ref"
                  /\ call' = [c0 EXCEPT !.result = "running", !.mkdir = TRUE]
                  /\ content' = disk[d]
                  /\ image_links' = links
                  /\ idx' = 1
                  /\ attempt' = 0
                  /\ touched' = touched \cup {ImageDir(base_dir, docdir[d])}
                  /\ UNCHANGED <<raised, exit_code, ending>>

\* lines 187-188: the next file of markdown_files (rglob promises no order)
LoopNext(d, outcome) ==
    /\ pc = "loop"
    /\ session = "Processing"
    /\ d \in remaining
    /\ remaining' = remaining \ {d}
    /\ StartFile(d, outcome)
    /\ UNCHANGED <<directory, session, base_dir, original_dir, max_retries,
                   processed_files, processed_images, failed_downloads, disk, docdir,
                   images, failed_calls, ncalls, images_start, downloaded,
                   ext_call>>

\* a call of process_markdown_file by the direct driver
CallFile(d, outcome) ==
    /\ pc = "loop"
    /\ ncalls < MaxCalls
    /\ d \in DOMAIN disk
    /\ ncalls' = ncalls + 1
    /\ StartFile(d, outcome)
    /\ UNCHANGED <<directory, session, base_dir, original_dir, max_retries,
                   processed_files, processed_images, failed_downloads, disk, docdir,
                   images, failed_calls, remaining, images_start, downloaded,
                   ext_call>>

\* the document is written after its first reference
LoopDoneEarly(i, links) == i > 1

\* line 141: the for loop over image_links has run out
LoopDone(i, links) == i > Len(links)

\* every rewrite is written to the document at once
DiskWrittenThrough(dk, d, c) == [dk EXCEPT ![d] = c]

\* line 159 assigns the rewritten text c to the local variable content: the
\* document d on disk stays as it is
DiskAfterReplace(dk, d, c) == dk

\* lines 157-160: the link is rewritten to the path of local_path relative to
\* the document's directory
Rewrite(c, link, f) ==
    Replace(c, RemoteToken(link.alt, link.url), LocalToken(link.alt, f))

\* lines 141-155, for the link at idx: a file found by the glob is reused (the
\* glob's first result, its order being the directory's); otherwise the image
\* is downloaded.  With max_retries < 1 download_image falls off its loop and
\* returns None, and unpacking it at line 152 raises.
HandleRef ==
    /\ pc = "ref"
    /\ ~LoopDone(idx, image_links)
    /\ LET link == image_links[idx]
           existing_images == Glob(images[docdir[cur]], MD5(link.url))
       IN  IF existing_images # {}
           THEN /\ \E local_path \in existing_images :
                     /\ content' = Rewrite(content, link, local_path)
                     /\ disk' = DiskAfterReplace(disk, cur,
                                                 Rewrite(content, link, local_path))
                /\ processed_images' = processed_images + 1
                /\ idx' = idx + 1
                /\ call' = [call EXCEPT !.hit_idx = @ \cup {idx}]
                /\ UNCHANGED <<pc, attempt, dl, raised, image_links, exit_code, ending>>
           ELSE IF max_retries >= 1
                THEN /\ pc' = "download"
                     /\ attempt' = 1
                     /\ dl' = [NoDl EXCEPT !.url = link.url, !.result = "running"]
                     /\ UNCHANGED <<content, processed_images, idx, call, raised,
                                    image_links, exit_code, ending, disk>>
                ELSE /\ FileRaise(cur)
                     /\ dl' = [NoDl EXCEPT !.url = link.url]
                     /\ call' = [call EXCEPT !.result = "raised"]
                     /\ UNCHANGED <<processed_images, disk>>
    /\ UNCHANGED <<directory, session, base_dir, original_dir, max_retries,
                   processed_files, failed_downloads, docdir, images, remaining,
                   cur, touched, calls, failed_calls, ncalls, images_start, downloaded,
                   ext_call>>

(***************************************************************************)
(* download_image.                                                         *)
(***************************************************************************)
\* the failed call is not counted
CountFailureForgotten(n) == n

\* line 117: self.failed_downloads += 1
CountFailure(n) == n + 1

\* the failure is reported one attempt early
IsLastAttemptEarly(a, retries) == a >= retries - 1

\* line 116
IsLastAttempt(a, retries) == a = retries

\* lines 93-105: the attempt raises when the request or raise_for_status
\* raises ("error"), when the content type does not start with image/, or when
\* write_bytes raises
AttemptRaises(response, write) ==
    \/ response = "error"
    \/ ~StartsWithImage(response)
    \/ write # "ok"

\* line 105: write_bytes creates the file unless it could not open it
FileCreated(response, write) ==
    /\ response # "error"
    /\ StartsWithImage(response)
    /\ write \in {"ok", "partial"}

\* lines 102-103: output_path is image_dir / image_hash
FinalPath(url, content_type) ==
    [hash |-> MD5(url), ext |-> get_image_extension(url, content_type)]

\* one pass of the loop of line 88.  response is "error" or the content-type
\* header of a response with a success status; write is the outcome of
\* write_bytes: done, raised leaving a partial file, raised leaving none.
\* dl.nonimage tells whether the content type of the last response was one
\* that does not start with image/.
Attempt(response, write) ==
    /\ pc = "download"
    /\ LET link == image_links[idx]
           final_path == FinalPath(link.url, response)
           made == IF FileCreated(response, write) THEN {final_path} ELSE {}
           dl1 == [dl EXCEPT !.created = @ \cup made,
                             !.nonimage = response \in ContentTypes \ ImageTypes]
           call1 == [call EXCEPT !.requested = @ \cup {link.url}, !.nreq = @ + 1]
       IN  /\ images' = [images EXCEPT ![docdir[cur]] = @ \cup made]
           /\ touched' = touched \cup {ImagePath(base_dir, docdir[cur], f) : f \in made}
           /\ IF ~AttemptRaises(response, write)
              THEN /\ content' = Rewrite(content, link, final_path)
                   /\ disk' = DiskAfterReplace(disk, cur,
                                               Rewrite(content, link, final_path))
                   /\ processed_images' = processed_images + 1
                   /\ idx' = idx + 1
                   /\ pc' = "ref"
                   /\ attempt' = 0
                   /\ dl' = [dl1 EXCEPT !.result = "success", !.path = final_path]
                   /\ call' = [call1 EXCEPT !.ok_log = Append(@, link.url)]
                   /\ downloaded' = downloaded \cup {<<docdir[cur], link.url>>}
                   /\ UNCHANGED <<failed_downloads, failed_calls>>
              ELSE IF IsLastAttempt(attempt, max_retries)
                   THEN /\ failed_downloads' = CountFailure(failed_downloads)
                        /\ failed_calls' = failed_calls + 1
                        /\ idx' = idx + 1
                        /\ pc' = "ref"
                        /\ attempt' = 0
                        /\ dl' = [dl1 EXCEPT !.result = "failure", !.failed = @ + 1]
                        /\ call' = [call1 EXCEPT !.failed_idx = @ \cup {idx}]
                        /\ UNCHANGED <<content, processed_images, disk, downloaded>>
                   ELSE /\ attempt' = attempt + 1
                        /\ dl' = [dl1 EXCEPT !.failed = @ + 1]
                        /\ call' = call1
                        /\ UNCHANGED <<content, processed_images, idx, pc,
                                       failed_downloads, failed_calls, disk,
                                       downloaded>>
    /\ UNCHANGED <<directory, exit_code, ending, session, base_dir, original_dir,
                   max_retries, processed_files, docdir, remaining, cur,
                   image_links, calls, raised, ncalls, images_start, ext_call>>

\* lines 163-166, after the loop: write_text either writes the text, or raises
\* leaving the document as it was (it could not be opened) or cut short after
\* keep tokens
WriteBack(outcome, keep) ==
    /\ pc = "ref"
    /\ LoopDone(idx, image_links)
    /\ IF outcome = "ok"
       THEN /\ keep = Len(content)
            /\ disk' = [disk EXCEPT ![cur] = content]
            /\ processed_files' = processed_files + 1
            /\ touched' = touched \cup {DocPath(base_dir, docdir[cur], cur)}
            /\ call' = [call EXCEPT !.result = "written", !.writes = @ + 1]
            /\ pc' = "loop"
            /\ content' = <<>>
            /\ image_links' = <<>>
            /\ idx' = 0
            /\ attempt' = 0
            /\ UNCHANGED <<raised, exit_code, ending>>
       ELSE /\ IF outcome = "unopened"
               THEN /\ keep = Len(content)
                    /\ call' = [call EXCEPT !.result = "raised"]
                    /\ UNCHANGED <<disk, touched>>
               ELSE /\ keep < Len(content)
                    /\ disk' = [disk EXCEPT ![cur] = SubSeq(content, 1, keep)]
                    /\ touched' = touched \cup {DocPath(base_dir, docdir[cur], cur)}
                    /\ call' = [call EXCEPT !.result = "raised", !.writes = @ + 1]
            /\ FileRaise(cur)
            /\ UNCHANGED processed_files
    /\ UNCHANGED <<directory, session, base_dir, original_dir, max_retries,
                   processed_images, failed_downloads, docdir, images, remaining, cur,
                   calls, dl, failed_calls, ncalls, images_start, downloaded,
                   ext_call>>

\* process_directory returns after its loop without calling print_summary
PrintSummarySkipped ==
    /\ pc = "loop"
    /\ session = "Processing"
    /\ remaining = {}
    /\ pc' = "exited"
    /\ exit_code' = 0
    /\ ending' = "returned"
    /\ UNCHANGED <<directory, session, base_dir, original_dir, max_retries,
                   processed_files, processed_images, failed_downloads, disk, docdir,
                   images, remaining, cur, content, image_links, idx, attempt, touched,
                   calls, raised, call, dl, failed_calls, ncalls, images_start,
                   downloaded, ext_call>>

\* line 190, after the loop of line 187; main then returns
PrintSummary ==
    /\ pc = "loop"
    /\ session = "Processing"
    /\ remaining = {}
    /\ session' = "Summarized"
    /\ pc' = "exited"
    /\ exit_code' = 0
    /\ ending' = "summary"
    /\ UNCHANGED <<directory, base_dir, original_dir, max_retries, processed_files,
                   processed_images, failed_downloads, disk, docdir, images, remaining,
                   cur, content, image_links, idx, attempt, touched, calls, raised, call,
                   dl, failed_calls, ncalls, images_start, downloaded,
                   ext_call>>

FileOutcomes == {"ok", "read_error", "mkdir_error"}
AttemptResponses == {"error"} \cup ContentTypes
WriteOutcomes == {"ok", "partial", "nofile"}

FileSteps ==
    \/ HandleRef
    \/ \E response \in AttemptResponses, write \in WriteOutcomes : Attempt(response, write)
    \/ \E outcome \in {"ok", "unopened", "cut"}, keep \in 0..Len(content) :
           WriteBack(outcome, keep)

Next ==
    \/ \E response \in Responses : Confirm(response)
    \/ \E outcome \in {"ok", "error"}, created \in BOOLEAN :
           CreateWorkingCopy(outcome, created)
    \/ Scan
    \/ \E d \in DOMAIN disk, outcome \in FileOutcomes : LoopNext(d, outcome)
    \/ FileSteps
    \/ PrintSummary

Spec == Init /\ [][Next]_vars

NextCalls ==
    \/ \E d \in DOMAIN disk, outcome \in FileOutcomes : CallFile(d, outcome)
    \/ FileSteps

SpecCalls == InitCalls /\ [][NextCalls]_vars

\* lines 62-84, called directly
GetImageExtension ==
    /\ pc = "ext"
    /\ pc' = "exited"
    /\ ext_call' = [ext_call EXCEPT
                       !.result = get_image_extension(ext_call.url, ext_call.content_type)]
    /\ UNCHANGED <<directory, exit_code, ending, session, base_dir, original_dir,
                   max_retries, processed_files, processed_images, failed_downloads,
                   disk, docdir, images, remaining, cur, content, image_links, idx,
                   attempt, touched, calls, raised, call, dl, failed_calls, ncalls,
                   images_start, downloaded>>

NextExt == GetImageExtension

SpecExt == InitExt /\ [][NextExt]_vars

(***************************************************************************)
(* Properties.                                                             *)
(***************************************************************************)
NoRemote(c) == \A i \in 1..Len(c) : ~c[i].http
Count(q, x) == Cardinality({i \in 1..Len(q) : q[i] = x})
\* the links of the document read by the current (or last) call
Links0 == FindAll(call.read0)
Positions0 == RemotePositions(call.read0, 1)
\* the positions of the links of that document equal to link
Occurrences(link) == {i \in 1..Len(Links0) : Links0[i] = link}
Written == call.result = "written"
\* the files named <md5(u)>.* that local_images held when the call began
Cached(u) == {f \in call.images0 : f.hash = MD5(u)}

\* C1: a reference whose download_image call failed on all its attempts keeps
\* its original markup in the written document, whatever happens to later
\* references, and each failed call adds exactly 1 to failed_downloads.
C1_FailedReferenceKeepsMarkup ==
    /\ failed_downloads = failed_calls
    /\ Written =>
          \A i \in call.failed_idx : disk[cur][Positions0[i]] = call.read0[Positions0[i]]

\* C2: a URL that has a file <md5(u)>.* in local_images before the document is
\* processed is never requested during the call, and in the written document
\* every reference to it points to one of those files.
C2_CacheHitShortCircuit ==
    \A u \in Urls :
        Cached(u) # {} =>
            /\ u \notin call.requested
            /\ Written =>
                  \A p \in 1..Len(call.read0) :
                      (call.read0[p].http /\ call.read0[p].url = u) =>
                          /\ ~disk[cur][p].http
                          /\ disk[cur][p].alt = call.read0[p].alt
                          /\ disk[cur][p].file \in Cached(u)

C2_Witness ==
    /\ Written
    /\ Cached(U1) # {}
    /\ Len(Links0) = 2
    /\ \A i \in 1..2 : Links0[i].url = U1
    /\ Links0[1].alt # Links0[2].alt

\* an (alt, url) pair that occurs more than once in the document read and was
\* obtained: one of its references was served from the cache or downloaded
Repeated(link) == Cardinality(Occurrences(link)) > 1
Obtained(link) == \E i \in Occurrences(link) : i \notin call.failed_idx
AllSamePath(link) ==
    \A i, j \in Occurrences(link) :
        /\ ~disk[cur][Positions0[i]].http
        /\ disk[cur][Positions0[i]] = disk[cur][Positions0[j]]

\* C3 as stated: every occurrence of a repeated, obtained pair is replaced
\* with the same local path and exactly one download of its URL succeeds.
C3_ExactlyOneDownload ==
    Written =>
        \A i \in 1..Len(Links0) :
            (Repeated(Links0[i]) /\ Obtained(Links0[i])) =>
                /\ AllSamePath(Links0[i])
                /\ Count(call.ok_log, Links0[i].url) = 1

\* C3 (amended): every occurrence of a repeated, obtained pair is replaced
\* with the same local path, and at most one download of its URL succeeds:
\* none when a file of its hash was in local_images before the call.
C3_AtMostOneDownload ==
    Written =>
        \A i \in 1..Len(Links0) :
            (Repeated(Links0[i]) /\ Obtained(Links0[i])) =>
                /\ AllSamePath(Links0[i])
                /\ Count(call.ok_log, Links0[i].url) <= 1
                /\ Cached(Links0[i].url) # {} =>
                       Count(call.ok_log, Links0[i].url) = 0

C3_Witness ==
    /\ Written
    /\ Len(Links0) = 2
    /\ Links0[1] = Links0[2]
    /\ call.ok_log = <<Links0[1].url>>
    /\ call.hit_idx = {2}

\* C4: when every reference of the document succeeded, the written document
\* holds no remote reference and local_images holds one new file for each of
\* the document's URLs that had no file before the call.
C4_AllLocalizedNewFiles ==
    (Written /\ call.failed_idx = {}) =>
        /\ NoRemote(disk[cur])
        /\ Cardinality(images[docdir[cur]] \ call.images0)
              = Cardinality({Links0[i].url : i \in {j \in 1..Len(Links0) :
                                 Cached(Links0[j].url) = {}}})

C6_RetryDiscipline ==
    max_retries >= 1 =>
        /\ dl.failed <= max_retries
        /\ (pc = "download") = (dl.result = "running")
        /\ dl.result = "running" => attempt = dl.failed + 1 /\ attempt <= max_retries
        /\ dl.result = "success" =>
              /\ dl.failed < max_retries
              /\ dl.path.hash = MD5(dl.url)
              /\ dl.path \in images[docdir[cur]]
        /\ dl.result = "failure" => dl.failed = max_retries

C6_Witness ==
    /\ max_retries = 2
    /\ dl.result = "failure"
    /\ Len(call.ok_log) = 1

\* C7: a download_image call that returns failure has created no file.
C7_NoFileLeftOnFailure ==
    dl.result = "failure" => dl.created = {}

\* C8: when the working copy cannot be created the run stops there: no
\* document is read or written, nothing is downloaded, and the process ends
\* with a non-zero exit code.
C8_CopyErrorIsFatal ==
    ending = "copy_error" =>
        /\ \A d \in DOMAIN disk : calls[d] = 0
        /\ call = NoCall
        /\ dl = NoDl
        /\ pc = "exited"
        /\ exit_code # 0

\* C9: process_directory calls process_markdown_file at most once per
\* document, and a run that entered the loop ends only with every document
\* of the scan processed once and the summary printed, also when the
\* processing of documents raised.
C9_FileErrorIsolation ==
    /\ \A d \in DOMAIN disk : calls[d] <= 1
    /\ (pc = "exited" /\ session \in {"Processing", "Summarized"}) =>
          /\ session = "Summarized"
          /\ ending = "summary"
          /\ \A d \in DOMAIN disk : calls[d] = 1

\* the first document processed raised, the second was processed after it
C9_Witness ==
    /\ ending = "summary"
    /\ Cardinality(DOMAIN disk) = 2
    /\ \E d \in raised : d # cur
    /\ call.result = "written"

\* C10: everything the run creates or writes lies outside the original
\* directory, the one the command line names.
C10_OriginalNeverMutated ==
    \A p \in touched : ~IsUnder(p, PathOf(directory))

(***************************************************************************)
(* get_image_extension, under SpecExt.                                     *)
(***************************************************************************)
\* the six content types the function recognizes and what each maps to
RecognizedTypes ==
    {"image/jpeg", "image/png", "image/gif", "image/webp", "image/svg+xml", "image/x-icon"}
RecognizedExt(t) ==
    CASE t = "image/jpeg" -> "jpg"
      [] t = "image/png" -> "png"
      [] t = "image/gif" -> "gif"
      [] t = "image/webp" -> "webp"
      [] t = "image/svg+xml" -> "svg"
      [] t = "image/x-icon" -> "ico"

SessionSteps ==
    {<<"Init", "CopyCreated">>, <<"CopyCreated", "Processing">>,
     <<"Processing", "Summarized">>}
\* the session changes only to the next state of the state machine
SessionInOrder == [][session' # session => <<session, session'>> \in SessionSteps]_vars
\* a run that has not returned can take a step
NeverStuck == pc # "exited" => ENABLED Next

\* C12 as stated: a run that has returned after creating the working copy is
\* in Summarized, whatever the number of documents found.
C12_AlwaysSummarized ==
    (pc = "exited" /\ session # "Init") => session = "Summarized"

\* C12 (amended): the session moves Init -> CopyCreated -> Processing ->
\* Summarized in that order, no state skipped or entered twice; a run is never
\* stuck before it returns; a run that created the working copy and found at
\* least one document returns in Summarized, after print_summary; one that
\* found no document returns in CopyCreated.
C12_SessionStateMachine ==
    /\ SessionInOrder
    /\ []NeverStuck
    /\ []((pc = "exited" /\ session # "Init") =>
             IF DOMAIN disk # {}
             THEN session = "Summarized" /\ ending = "summary"
             ELSE session = "CopyCreated" /\ ending = "no_documents")

\* a run over two documents that ended with the summary
C12_Witness ==
    /\ pc = "exited"
    /\ session = "Summarized"
    /\ Cardinality(DOMAIN disk) = 2
    /\ \A d \in DOMAIN disk : calls[d] = 1

(***************************************************************************)
(* The image cache.                                                        *)
(***************************************************************************)
OnePerHash(files) == \A f, g \in files : f.hash = g.hash => f = g

\* C13: a local_images directory that held at most one file per hash before
\* the calls holds at most one file <hash>.* per hash after any of them.
C13_OneFilePerHash ==
    \A dir \in Dirs : OnePerHash(images_start[dir]) => OnePerHash(images[dir])

(***************************************************************************)
(* The content-type check.                                                 *)
(***************************************************************************)
\* an attempt answered with a success status and a content type that does not
\* start with image/ (or none)
NonImageAttempt == pc = "download" /\ dl'.nonimage

\* C14: an attempt answered with a content type that does not start with
\* image/, or with none, writes no file and rewrites no reference; it counts
\* as a failed attempt, is followed by the next attempt when one is left, and
\* otherwise the call fails and the reference is skipped; a call never
\* succeeds on such a response.
C14_NonImageResponseFails ==
    /\ [][NonImageAttempt =>
             /\ images' = images
             /\ disk' = disk
             /\ content' = content
             /\ processed_images' = processed_images
             /\ dl'.created = dl.created
             /\ dl'.failed = dl.failed + 1
             /\ IF attempt < max_retries
                THEN /\ pc' = "download"
                     /\ attempt' = attempt + 1
                     /\ idx' = idx
                     /\ failed_downloads' = failed_downloads
                ELSE /\ pc' = "ref"
                     /\ idx' = idx + 1
                     /\ idx \in call'.failed_idx
                     /\ dl'.result = "failure"
                     /\ failed_downloads' = failed_downloads + 1]_vars
    /\ [](dl.nonimage => dl.result \in {"running", "failure"})

\* the second and last attempt was answered with text/html or without a
\* content type: the call has failed, no file was created
C14_Witness ==
    /\ max_retries = 2
    /\ dl.nonimage
    /\ dl.failed = 2
    /\ dl.result = "failure"
    /\ dl.created = {}
    /\ failed_downloads >= 1

(***************************************************************************)
(* The effect of one process_markdown_file call.                           *)
(***************************************************************************)
\* the call has returned, with or without an exception
Finished == call.result \in {"nolinks", "written", "raised"}
\* the references of the call handled so far: served from the cache,
\* downloaded, or failed and skipped
Handled == Cardinality(call.hit_idx) + Len(call.ok_log) + Cardinality(call.failed_idx)
CountersUnchanged ==
    /\ processed_files = call.files0
    /\ processed_images = call.images_n0
    /\ failed_downloads = call.failed0
\* a call on a document without remote reference changes nothing
NoRemoteNoEffect ==
    (call.result # "none" /\ NoRemote(call.read0)) =>
        /\ disk[cur] = call.read0
        /\ call.writes = 0
        /\ ~call.mkdir
        /\ call.nreq = 0
        /\ CountersUnchanged

\* C15 as stated: a call on a document without remote reference changes
\* nothing, and a call on a document with a remote reference has, once it has
\* returned, written the document exactly once.
C15_WrittenExactlyOnce ==
    /\ NoRemoteNoEffect
    /\ (Finished /\ ~NoRemote(call.read0)) => (Written /\ call.writes = 1)

\* C15 (amended): a call on a document without remote reference changes
\* nothing: no write, no mkdir, no request, the three counters as they were.
\* A call on a document with a remote reference writes the document at most
\* once, only after all its references have been handled, and exactly once
\* when it returns without an exception.
C15_WrittenOnceUnlessRaised ==
    /\ NoRemoteNoEffect
    /\ (call.result # "none" /\ ~NoRemote(call.read0)) =>
          /\ call.writes <= 1
          /\ call.writes = 1 => (Finished /\ Handled = Len(Links0))
          /\ call.writes = 0 => disk[cur] = call.read0
          /\ Finished => call.result \in {"written", "raised"}
          /\ Written => call.writes = 1

\* two references, the first downloaded, the second failed and skipped, then
\* the one write
C15_Witness ==
    /\ Written
    /\ call.writes = 1
    /\ Len(Links0) = 2
    /\ Len(call.ok_log) = 1
    /\ call.failed_idx = {2}

\* C16: for max_retries >= 1, a call that returned without an exception added
\* to processed_images and failed_downloads together the number of matches
\* of the document, repeated ones counted, and 1 to processed_files when the
\* document had a match (also when every download failed), 0 when it had
\* none; a call that raised added 0 to processed_files.
C16_CounterAccounting ==
    max_retries >= 1 =>
        /\ (Finished /\ call.result # "raised") =>
              /\ (processed_images - call.images_n0) + (failed_downloads - call.failed0)
                    = Len(Links0)
              /\ processed_files - call.files0 = IF Len(Links0) > 0 THEN 1 ELSE 0
        /\ call.result = "raised" => processed_files = call.files0

\* both downloads of a document of two references failed, the second call of
\* the run: the document counts as processed
C16_Witness ==
    /\ max_retries >= 1
    /\ Written
    /\ Len(Links0) = 2
    /\ call.failed_idx = {1, 2}
    /\ failed_downloads - call.failed0 = 2
    /\ processed_files - call.files0 = 1

\* C17: a call that raised without write_text having changed the document
\* leaves the document as it was when the call began, while the files of
\* local_images stay, those downloaded by the call included, and
\* processed_images keeps the increments of the references obtained.
C17_AbortLeavesDocument ==
    (call.result = "raised" /\ call.writes = 0) =>
        /\ disk[cur] = call.read0
        /\ call.images0 \subseteq images[docdir[cur]]
        /\ \A i \in 1..Len(call.ok_log) :
               \E f \in images[docdir[cur]] : f.hash = MD5(call.ok_log[i])
        /\ processed_images = call.images_n0 + Cardinality(call.hit_idx) + Len(call.ok_log)

\* the first reference was served from the cache, the second made the call
\* raise (max_retries = 0)
C17_Witness ==
    /\ call.result = "raised"
    /\ call.writes = 0
    /\ call.hit_idx = {1}
    /\ Len(Links0) = 2
    /\ processed_images = call.images_n0 + 1
    /\ pc = "loop"

(***************************************************************************)
(* The cache over a run, under Spec.                                       *)
(***************************************************************************)
\* C18: while a request for a URL is being made for a document, no download
\* of that URL into the local_images of the document's directory has
\* succeeded earlier in the run; and the requests made for one document are
\* at most max_retries times the number of its matches.
C18_CacheSharing ==
    /\ pc = "download" => <<docdir[cur], dl.url>> \notin downloaded
    /\ call.nreq <= max_retries * Len(Links0)

\* the second document of a directory refers to the URL the first one
\* downloaded, of which the directory had no file before the run: it is
\* served without a request
C18_Witness ==
    /\ Cardinality(DOMAIN disk) = 2
    /\ \A d \in DOMAIN disk : calls[d] = 1
    /\ Len(Links0) = 1
    /\ images_start[docdir[cur]] = {}
    /\ <<docdir[cur], Links0[1].url>> \in downloaded
    /\ call.hit_idx = {1}
    /\ call.nreq = 0
    /\ Written

====
